---- MODULE Spec2Model ----
(***************************************************************************)
(* A model of snapper (src/src/main.rs): a rule table from watched file to *)
(* backup directory is built from the configuration (parse_config_file),   *)
(* a watch is registered for every valid rule (start_file_watcher), and    *)
(* the dispatch loop of main copies a watched file into its backup         *)
(* directory on every Write event (process_write_event).                   *)
(*                                                                         *)
(* The file system, the wall clock and the notification subsystem are the  *)
(* environment: the file system is a state variable that both the program  *)
(* and the environment change, the clock is a choice among Instants, and   *)
(* the notification subsystem is a queue the environment appends to.       *)
(***************************************************************************)
EXTENDS Integers, Sequences, FiniteSets, TLC

\* Bounds of the model.
MaxEvents == 2      \* events the notification subsystem delivers in a run
MaxEnv == 1         \* changes the environment makes to the file system

VARIABLES
    config,     \* ConfigFile.rules: the rules as written, in order
    fs,         \* the file system: absolute path -> node
    pc,         \* where main is
    parseIdx,   \* parse_config_file: the next rule of the iterator
    table,      \* output_dir_lookup: canonical file path -> canonical dir path
    pending,    \* start_file_watcher: keys of the table the for loop has not visited
    watches,    \* paths registered with the watcher
    skipped,    \* keys the for loop left with `continue`
    queue,      \* the channel: events sent and not yet received
    connected,  \* whether a sender of the channel is alive
    cur,        \* process_write_event: its locals while it runs
    hist,       \* one record per finished process_write_event call
    copyCalls,  \* number of std::fs::copy calls made so far
    log,        \* the levels of the log lines of the last program step
    panic,      \* the expect/unwrap that aborted the process, or "none"
    raced,      \* files removed while a Write event for them was not yet copied
    sent,       \* the paths of the Write events sent so far, in order
    evLeft,     \* events the environment may still deliver
    envLeft     \* file system changes the environment may still make

vars == <<config, fs, pc, parseIdx, table, pending, watches, skipped, queue,
          connected, cur, hist, copyCalls, log, panic, raced, sent,
          evLeft, envLeft>>

startupVars == <<config, parseIdx, table, pending, watches, skipped>>

-----------------------------------------------------------------------------
\* Results (Result<T, E>, Option<T>).

Ok(v) == [ok |-> TRUE, val |-> v, err |-> "none"]

Err(e) == [ok |-> FALSE, val |-> <<>>, err |-> e]

-----------------------------------------------------------------------------
\* The file system.  A path is the sequence of its components; <<>> is "/".

FileNode(d) == [kind |-> "file", data |-> d, to |-> <<>>]

DirNode == [kind |-> "dir", data |-> 0, to |-> <<>>]

LinkNode(target) == [kind |-> "link", data |-> 0, to |-> target]

Root == <<>>

WatchedA == <<"w", "data.txt">>

WatchedB == <<"w", "b.txt">>

Gone == <<"w", "gone.txt">>

\* A file whose name is not valid UTF-8; the string stands for its bytes.
Latin1 == <<"w", "caf-E9.txt">>

LinkA == <<"lnk">>

DotA == <<"w", ".", "data.txt">>

Bk == <<"bk">>

Bk2 == <<"bk2">>

DotBk == <<"bk2", "..", "bk">>

NewBk == <<"new", "bk">>

InitialFs ==
    (Root :> DirNode) @@ (<<"w">> :> DirNode) @@ (WatchedA :> FileNode(1))
    @@ (WatchedB :> FileNode(1)) @@ (Latin1 :> FileNode(1))
    @@ (LinkA :> LinkNode(WatchedA))
    @@ (Bk :> DirNode) @@ (Bk2 :> DirNode)

Exists(f, p) == p \in DOMAIN f

IsFile(f, p) == Exists(f, p) /\ f[p].kind = "file"

IsDir(f, p) == Exists(f, p) /\ f[p].kind = "dir"

Parent(p) == IF p = <<>> THEN <<>> ELSE SubSeq(p, 1, Len(p) - 1)

Children(f, p) == {q \in DOMAIN f : q # <<>> /\ Parent(q) = p}

\* Path::canonicalize: every component is resolved against the file system,
\* "." and ".." are normalised away, symbolic links are followed, and a
\* component that does not exist is an error.
RECURSIVE Resolve(_, _, _)
Resolve(f, at, rest) ==
    IF rest = <<>> THEN Ok(at)
    ELSE LET c == Head(rest)
             next == Append(at, c)
         IN  IF c = "." THEN Resolve(f, at, Tail(rest))
             ELSE IF c = ".." THEN Resolve(f, Parent(at), Tail(rest))
             ELSE IF ~Exists(f, next) THEN Err("NotFound")
             ELSE IF f[next].kind = "link"
                  THEN Resolve(f, Root, f[next].to \o Tail(rest))
             ELSE IF f[next].kind = "file" /\ Tail(rest) # <<>>
                  THEN Err("NotADirectory")
             ELSE Resolve(f, next, Tail(rest))

Canonicalize(f, p) == Resolve(f, Root, p)

\* The non-empty prefixes of a path, shortest first.
Prefixes(p) == {SubSeq(p, 1, n) : n \in 1..Len(p)}

\* std::fs::create_dir_all: an existing directory is left alone; otherwise
\* every missing ancestor and the directory are created, unless a prefix is
\* something other than a directory or the operating system refuses (denied).
CreateDirAll(f, p, denied) ==
    IF IsDir(f, p) THEN Ok(f)
    ELSE IF denied \/ \E q \in Prefixes(p) : Exists(f, q) /\ ~IsDir(f, q)
         THEN Err("Io")
    ELSE Ok([q \in DOMAIN f \cup Prefixes(p) |->
                IF Exists(f, q) THEN f[q] ELSE DirNode])

\* A variant of FsCopy that empties the destination directory first.
FsCopyClearingDir(f, from, to) ==
    IF ~IsFile(f, from) THEN Err("Io")
    ELSE IF ~IsDir(f, Parent(to)) \/ IsDir(f, to) THEN Err("Io")
    ELSE Ok([q \in ((DOMAIN f \ Children(f, Parent(to))) \cup {from, to}) |->
                IF q = to THEN FileNode(f[from].data) ELSE f[q]])

\* std::fs::copy(from, to): from must be a regular file, the parent of to a
\* directory, and to not a directory; to is created or truncated and gets
\* the contents of from.
FsCopy(f, from, to) ==
    IF ~IsFile(f, from) THEN Err("Io")
    ELSE IF ~IsDir(f, Parent(to)) \/ IsDir(f, to) THEN Err("Io")
    ELSE Ok([q \in DOMAIN f \cup {to} |->
                IF q = to THEN FileNode(f[from].data) ELSE f[q]])

\* Path::file_name: the last component, none for the root.
FileName(p) == IF p = <<>> THEN Err("NoFileName") ELSE Ok(p[Len(p)])

\* Path::join with a relative single-component path.
Join(dir, name) == Append(dir, name)

-----------------------------------------------------------------------------
\* The wall clock and the backup file name.

\* A chrono::DateTime<Utc>, to the nanosecond.
DateTime(y, mo, d, h, mi, s, ns) ==
    [year |-> y, month |-> mo, day |-> d, hour |-> h, minute |-> mi,
     second |-> s, nanosecond |-> ns]

\* The instants chrono::Utc::now() returns in the model: two within the same
\* microsecond, and a third of the same second in another microsecond.
Instants ==
    { DateTime(2024, 3, 1, 12, 0, 0, 123456000),
      DateTime(2024, 3, 1, 12, 0, 0, 123456789),
      DateTime(2024, 3, 1, 12, 0, 0, 4000) }

RECURSIVE Pow10(_)
Pow10(n) == IF n = 0 THEN 1 ELSE 10 * Pow10(n - 1)

\* {:0w}: n in decimal, zero-padded on the left to at least w digits.
RECURSIVE ZeroPad(_, _)
ZeroPad(n, w) ==
    IF w <= 1 \/ n >= Pow10(w - 1) THEN ToString(n)
    ELSE "0" \o ZeroPad(n, w - 1)

\* A variant of FormatTime that stops at the second ("%Y%m%d-%H%M%S").
FormatTimeToSecond(t) ==
    ZeroPad(t.year, 4) \o ZeroPad(t.month, 2) \o ZeroPad(t.day, 2) \o "-"
    \o ZeroPad(t.hour, 2) \o ZeroPad(t.minute, 2) \o ZeroPad(t.second, 2)

\* DateTime::format("%Y%m%d-%H%M%S-%6f"): %6f is the fraction of the second
\* in microseconds, the nanoseconds below a microsecond cut off.
FormatTime(t) ==
    ZeroPad(t.year, 4) \o ZeroPad(t.month, 2) \o ZeroPad(t.day, 2) \o "-"
    \o ZeroPad(t.hour, 2) \o ZeroPad(t.minute, 2) \o ZeroPad(t.second, 2) \o "-"
    \o ZeroPad(t.nanosecond \div 1000, 6)

\* A variant of BackupFileName that leaves the base name out.
BackupFileNameTimeOnly(t, name) == FormatTime(t)

\* A variant of BackupFileName with the arguments of format! exchanged.
BackupFileNameNameFirst(t, name) == name \o "-" \o FormatTime(t)

\* format!("{}-{}", curr_time.format(..), file_name): the time comes first.
BackupFileName(t, name) == FormatTime(t) \o "-" \o name

\* OsStr::to_str: none when the name is not valid UTF-8.
NonUtf8Names == {"caf-E9.txt"}

ToStr(name) == IF name \in NonUtf8Names THEN Err("NotUtf8") ELSE Ok(name)

-----------------------------------------------------------------------------
\* The configuration and the events.

BackupRule(f, d) == [file_path |-> f, backup_dir_path |-> d]

\* The rule lists a run starts from.
Configs ==
    { <<BackupRule(DotA, DotBk)>>,
      <<BackupRule(WatchedA, Bk), BackupRule(WatchedB, Bk)>>,
      <<BackupRule(WatchedA, Bk), BackupRule(WatchedB, Bk2)>>,
      <<BackupRule(WatchedA, Bk), BackupRule(LinkA, Bk2)>>,
      <<BackupRule(WatchedA, NewBk), BackupRule(WatchedB, Bk)>>,
      <<BackupRule(WatchedA, Bk), BackupRule(Gone, Bk2)>>,
      <<BackupRule(Root, Bk), BackupRule(Latin1, Bk2)>>,
      <<BackupRule(WatchedA, WatchedB), BackupRule(WatchedB, Bk)>> }

\* notify::DebouncedEvent.
OtherKinds ==
    {"NoticeWrite", "NoticeRemove", "Create", "Chmod", "Remove", "Rename",
     "Rescan", "Error"}

Event(k, p) == [kind |-> k, path |-> p]

\* The paths a Write event reports.
WritePaths == {WatchedA, LinkA, WatchedB, Root, Latin1}

Events ==
    {Event("Write", p) : p \in WritePaths}
    \cup {Event(k, WatchedA) : k \in OtherKinds}

\* The level main logs a received event at.
EventLevel(k) == IF k = "Error" THEN "error" ELSE "debug"

\* The locals of process_write_event before they are assigned.
NoTime == DateTime(0, 0, 0, 0, 0, 0, 0)

NoCur == [path |-> <<>>, canon |-> <<>>, dir |-> <<>>, name |-> "", t |-> NoTime]

EmptyTable == [k \in {} |-> <<>>]

\* A variant of TableInsert that keeps the first pair of a key.
TableInsertFirstWins(t, k, v) ==
    [q \in DOMAIN t \cup {k} |-> IF q \in DOMAIN t THEN t[q] ELSE v]

\* HashMap::insert, as collect() applies it: a later pair replaces an
\* earlier one with the same key.
TableInsert(t, k, v) == [q \in DOMAIN t \cup {k} |-> IF q = k THEN v ELSE t[q]]

Init ==
    /\ config \in Configs
    /\ fs = InitialFs
    /\ pc = "parse"
    /\ parseIdx = 1
    /\ table = EmptyTable
    /\ pending = {}
    /\ watches = {}
    /\ skipped = {}
    /\ queue = <<>>
    /\ connected = FALSE
    /\ cur = NoCur
    /\ hist = <<>>
    /\ copyCalls = 0
    /\ log = <<>>
    /\ panic = "none"
    /\ raced = {}
    /\ sent = <<>>
    /\ evLeft = MaxEvents
    /\ envLeft = MaxEnv

-----------------------------------------------------------------------------
\* Startup: parse_config_file and start_file_watcher.

\* A failed expect() or unwrap(): the process aborts with that message.
Abort(msg) ==
    /\ pc' = "aborted"
    /\ panic' = msg

\* A variant of ParseRule that leaves out a rule whose paths do not resolve.
ParseRuleSkipping ==
    /\ pc = "parse"
    /\ LET rule == config[parseIdx]
           f == Canonicalize(fs, rule.file_path)
           d == Canonicalize(fs, rule.backup_dir_path)
       IN  /\ table' = IF f.ok /\ d.ok THEN TableInsert(table, f.val, d.val)
                       ELSE table
           /\ parseIdx' = parseIdx + 1
           /\ pc' = IF parseIdx = Len(config) THEN "watcher" ELSE "parse"
           /\ log' = <<>>
    /\ UNCHANGED <<config, fs, pending, watches, skipped, queue, connected,
                   cur, hist, copyCalls, panic, raced, sent, evLeft, envLeft>>

\* One turn of the iterator of parse_config_file: both paths of the rule are
\* canonicalized, the file path first, and the pair is collected.
ParseRule ==
    /\ pc = "parse"
    /\ LET rule == config[parseIdx]
           f == Canonicalize(fs, rule.file_path)
           d == Canonicalize(fs, rule.backup_dir_path)
       IN  IF ~f.ok
           THEN Abort("Failed to canonicalize file path.")
                /\ UNCHANGED <<table, parseIdx, log>>
           ELSE IF ~d.ok
           THEN Abort("Failed to canonicalize directory path.")
                /\ UNCHANGED <<table, parseIdx, log>>
           ELSE /\ table' = TableInsert(table, f.val, d.val)
                /\ parseIdx' = parseIdx + 1
                /\ pc' = IF parseIdx = Len(config) THEN "watcher" ELSE "parse"
                /\ log' = <<>>
                /\ UNCHANGED panic
    /\ UNCHANGED <<config, fs, pending, watches, skipped, queue, connected,
                   cur, hist, copyCalls, raced, sent, evLeft, envLeft>>

\* mpsc::channel() and notify::watcher(tx, 5 s), which may fail.
CreateWatcher ==
    /\ pc = "watcher"
    /\ \E created \in BOOLEAN :
          IF created
          THEN /\ connected' = TRUE
               /\ pending' = DOMAIN table
               /\ pc' = "register"
               /\ log' = <<>>
               /\ UNCHANGED panic
          ELSE /\ Abort("Failed to create file change watcher.")
               /\ UNCHANGED <<connected, pending, log>>
    /\ UNCHANGED <<config, fs, parseIdx, table, watches, skipped, queue,
                   cur, hist, copyCalls, raced, sent, evLeft, envLeft>>

\* A variant of FileUsable that accepts every path.
FileUsableAlways(f, k) == TRUE

\* The two checks of the for loop that end in `continue`.
FileUsable(f, k) == IsFile(f, k)

DirUsable(f, d) == ~(Exists(f, d) /\ ~IsDir(f, d))

\* A variant of RegisterRule that drops a skipped rule from the table.
RegisterRuleForgetting(k, denied, watched) ==
    /\ pc = "register"
    /\ k \in pending
    /\ pending' = pending \ {k}
    /\ LET d == table[k]
           made == CreateDirAll(fs, d, denied)
       IN  IF ~FileUsable(fs, k) \/ ~DirUsable(fs, d)
           THEN /\ log' = <<"error">>
                /\ skipped' = skipped \cup {k}
                /\ pc' = IF pending' = {} THEN "recv" ELSE "register"
                /\ table' = [q \in DOMAIN table \ {k} |-> table[q]]
                /\ UNCHANGED <<fs, watches, panic>>
           ELSE /\ table' = table
                /\ fs' = IF made.ok THEN made.val ELSE fs
                /\ log' = (IF made.ok THEN <<>> ELSE <<"error">>) \o <<"debug">>
                /\ IF watched
                   THEN /\ watches' = watches \cup {k}
                        /\ pc' = IF pending' = {} THEN "recv" ELSE "register"
                        /\ UNCHANGED <<skipped, panic>>
                   ELSE /\ Abort("Failed to add file path to watcher.")
                        /\ UNCHANGED <<watches, skipped>>
    /\ UNCHANGED <<config, parseIdx, queue, connected, cur, hist,
                   copyCalls, raced, sent, evLeft, envLeft>>

\* One turn of the for loop of start_file_watcher, for key k: the two
\* checks, create_dir_all (a failure is logged and the turn goes on) and
\* watcher.watch(..).expect(..).  The HashMap is visited in any order.
RegisterRule(k, denied, watched) ==
    /\ pc = "register"
    /\ k \in pending
    /\ pending' = pending \ {k}
    /\ LET d == table[k]
           made == CreateDirAll(fs, d, denied)
       IN  IF ~FileUsable(fs, k) \/ ~DirUsable(fs, d)
           THEN /\ log' = <<"error">>
                /\ skipped' = skipped \cup {k}
                /\ pc' = IF pending' = {} THEN "recv" ELSE "register"
                /\ UNCHANGED <<fs, watches, panic>>
           ELSE /\ fs' = IF made.ok THEN made.val ELSE fs
                /\ log' = (IF made.ok THEN <<>> ELSE <<"error">>) \o <<"debug">>
                /\ IF watched
                   THEN /\ watches' = watches \cup {k}
                        /\ pc' = IF pending' = {} THEN "recv" ELSE "register"
                        /\ UNCHANGED <<skipped, panic>>
                   ELSE /\ Abort("Failed to add file path to watcher.")
                        /\ UNCHANGED <<watches, skipped>>
    /\ UNCHANGED <<config, parseIdx, table, queue, connected, cur, hist,
                   copyCalls, raced, sent, evLeft, envLeft>>

Register == \E k \in pending, denied \in BOOLEAN, watched \in BOOLEAN :
                RegisterRule(k, denied, watched)

-----------------------------------------------------------------------------
\* The dispatch loop of main and process_write_event.

HistEntry(c, result, dest, data) ==
    [path |-> c.path, canon |-> c.canon, dir |-> c.dir, name |-> c.name,
     t |-> c.t, result |-> result, dest |-> dest, data |-> data,
     raced |-> c.path \in raced]

\* A variant of Return in which main unwraps the result.
ReturnOrPanic(c, result, dest, data) ==
    /\ hist' = Append(hist, HistEntry(c, result, dest, data))
    /\ log' = <<>>
    /\ cur' = NoCur
    /\ pc' = IF result = "Ok" THEN "recv" ELSE "aborted"

\* process_write_event returns: main logs an Err at error level and goes
\* back to recv().
Return(c, result, dest, data) ==
    /\ hist' = Append(hist, HistEntry(c, result, dest, data))
    /\ log' = IF result = "Ok" THEN <<>> ELSE <<"error">>
    /\ cur' = NoCur
    /\ pc' = "recv"

\* A variant of RecvWrite that takes the newest event of the channel.
RecvWriteNewest ==
    /\ pc = "recv"
    /\ queue # <<>>
    /\ queue[Len(queue)].kind = "Write"
    /\ queue' = SubSeq(queue, 1, Len(queue) - 1)
    /\ cur' = [NoCur EXCEPT !.path = queue[Len(queue)].path]
    /\ log' = <<"debug">>
    /\ pc' = "process"
    /\ UNCHANGED <<startupVars, fs, connected, hist, copyCalls, panic, raced,
                   sent, evLeft, envLeft>>

\* recv() yields a Write event: it is logged and process_write_event is called.
RecvWrite ==
    /\ pc = "recv"
    /\ queue # <<>>
    /\ Head(queue).kind = "Write"
    /\ queue' = Tail(queue)
    /\ cur' = [NoCur EXCEPT !.path = Head(queue).path]
    /\ log' = <<"debug">>
    /\ pc' = "process"
    /\ UNCHANGED <<startupVars, fs, connected, hist, copyCalls, panic, raced,
                   sent, evLeft, envLeft>>

\* A variant of RecvOther whose Error arm panics.
RecvOtherPanicsOnError ==
    /\ pc = "recv"
    /\ queue # <<>>
    /\ Head(queue).kind # "Write"
    /\ queue' = Tail(queue)
    /\ log' = <<EventLevel(Head(queue).kind)>>
    /\ pc' = IF Head(queue).kind = "Error" THEN "aborted" ELSE pc
    /\ panic' = IF Head(queue).kind = "Error" THEN "error event" ELSE panic
    /\ UNCHANGED <<startupVars, fs, connected, cur, hist, copyCalls, raced,
                   sent, evLeft, envLeft>>

\* A variant of RecvOther whose Create arm calls process_write_event too.
RecvOtherBacksUp ==
    /\ pc = "recv"
    /\ queue # <<>>
    /\ Head(queue).kind # "Write"
    /\ queue' = Tail(queue)
    /\ log' = <<EventLevel(Head(queue).kind)>>
    /\ cur' = IF Head(queue).kind = "Create"
              THEN [NoCur EXCEPT !.path = Head(queue).path] ELSE cur
    /\ pc' = IF Head(queue).kind = "Create" THEN "process" ELSE pc
    /\ UNCHANGED <<startupVars, fs, connected, hist, copyCalls, panic, raced,
                   sent, evLeft, envLeft>>

\* recv() yields an event of another kind: the match arm logs it.
RecvOther ==
    /\ pc = "recv"
    /\ queue # <<>>
    /\ Head(queue).kind # "Write"
    /\ queue' = Tail(queue)
    /\ log' = <<EventLevel(Head(queue).kind)>>
    /\ UNCHANGED <<startupVars, fs, pc, connected, cur, hist, copyCalls, panic,
                   raced, sent, evLeft, envLeft>>

\* recv() on an empty channel with no sender left: unwrap() panics.
RecvDisconnected ==
    /\ pc = "recv"
    /\ queue = <<>>
    /\ ~connected
    /\ Abort("recv")
    /\ UNCHANGED <<startupVars, fs, queue, connected, cur, hist, copyCalls, log,
                   raced, sent, evLeft, envLeft>>

\* A variant of Lookup that falls back to a default directory.
LookupOrDefault(t, k) == IF k \in DOMAIN t THEN Ok(t[k]) ELSE Ok(Bk)

\* A variant of Lookup that yields the directory of some rule of the table.
LookupAnyRule(t, k) ==
    IF k \in DOMAIN t THEN Ok(t[CHOOSE q \in DOMAIN t : TRUE])
    ELSE Err("NoRule")

\* HashMap::get.
Lookup(t, k) == IF k \in DOMAIN t THEN Ok(t[k]) ELSE Err("NoRule")

\* A variant of ProcessWriteEvent that takes the file name before it looks
\* the rule up.
ProcessWriteEventNameFirst(now) ==
    /\ pc = "process"
    /\ LET c == Canonicalize(fs, cur.path)
           dir == Lookup(table, c.val)
           fname == FileName(c.val)
           str == ToStr(fname.val)
           c1 == [cur EXCEPT !.canon = c.val]
           c2 == [c1 EXCEPT !.dir = dir.val, !.t = now]
       IN  IF ~c.ok THEN Return(cur, "PathResolution", <<>>, 0)
           ELSE IF ~fname.ok THEN Return(c1, "InvalidFileName", <<>>, 0)
           ELSE IF ~str.ok THEN Return(c1, "NotUtf8", <<>>, 0)
           ELSE IF ~dir.ok THEN Return(c1, "NoRule", <<>>, 0)
           ELSE /\ cur' = [c2 EXCEPT !.name = BackupFileName(now, str.val)]
                /\ log' = <<"debug">>
                /\ pc' = "copy"
                /\ UNCHANGED hist
    /\ UNCHANGED <<startupVars, fs, queue, connected, copyCalls, panic, raced,
                   sent, evLeft, envLeft>>

\* process_write_event up to the copy: canonicalize, look the rule up, take
\* the time, build the backup file name.
ProcessWriteEvent(now) ==
    /\ pc = "process"
    /\ LET c == Canonicalize(fs, cur.path)
           dir == Lookup(table, c.val)
           fname == FileName(c.val)
           str == ToStr(fname.val)
           c1 == [cur EXCEPT !.canon = c.val]
           c2 == [c1 EXCEPT !.dir = dir.val, !.t = now]
       IN  IF ~c.ok THEN Return(cur, "PathResolution", <<>>, 0)
           ELSE IF ~dir.ok THEN Return(c1, "NoRule", <<>>, 0)
           ELSE IF ~fname.ok THEN Return(c2, "InvalidFileName", <<>>, 0)
           ELSE IF ~str.ok THEN Return(c2, "NotUtf8", <<>>, 0)
           ELSE /\ cur' = [c2 EXCEPT !.name = BackupFileName(now, str.val)]
                /\ log' = <<"debug">>
                /\ pc' = "copy"
                /\ UNCHANGED hist
    /\ UNCHANGED <<startupVars, fs, queue, connected, copyCalls, panic, raced,
                   sent, evLeft, envLeft>>

Process == \E now \in Instants : ProcessWriteEvent(now)

\* A variant of CopyBackup that creates the destination before it opens the
\* source.
CopyBackupCreateFirst ==
    /\ pc = "copy"
    /\ LET dest == Join(cur.dir, cur.name)
           r == FsCopy(fs, cur.canon, dest)
       IN  /\ copyCalls' = copyCalls + 1
           /\ IF r.ok
              THEN /\ fs' = r.val
                   /\ Return(cur, "Ok", dest, fs[cur.canon].data)
              ELSE /\ fs' = IF IsDir(fs, cur.dir)
                            THEN [q \in DOMAIN fs \cup {dest} |->
                                     IF q = dest THEN FileNode(0) ELSE fs[q]]
                            ELSE fs
                   /\ Return(cur, "CopyFailed", dest, 0)
    /\ UNCHANGED <<startupVars, queue, connected, panic, raced, sent, evLeft, envLeft>>

\* std::fs::copy(canonical_path, backup_dir.join(backup_file_name))?
CopyBackup ==
    /\ pc = "copy"
    /\ LET dest == Join(cur.dir, cur.name)
           r == FsCopy(fs, cur.canon, dest)
       IN  /\ copyCalls' = copyCalls + 1
           /\ IF r.ok
              THEN /\ fs' = r.val
                   /\ Return(cur, "Ok", dest, fs[cur.canon].data)
              ELSE /\ fs' = fs
                   /\ Return(cur, "CopyFailed", dest, 0)
    /\ UNCHANGED <<startupVars, queue, connected, panic, raced, sent, evLeft, envLeft>>

-----------------------------------------------------------------------------
\* The environment.

\* The files and directories other processes change or remove.
Mutable == {WatchedA, Bk}

\* The contents a watched file takes.
Contents == {1, 2}

\* Another process writes a watched file.
EnvModify(p) ==
    /\ envLeft > 0
    /\ pc # "aborted"
    /\ IsFile(fs, p)
    /\ \E d \in Contents \ {fs[p].data} : fs' = [fs EXCEPT ![p].data = d]
    /\ envLeft' = envLeft - 1
    /\ UNCHANGED <<startupVars, pc, queue, connected, cur, hist, copyCalls, log,
                   panic, raced, sent, evLeft>>

\* The paths of the Write events that are sent and whose copy has not run.
PendingWrites ==
    {queue[i].path : i \in {j \in 1..Len(queue) : queue[j].kind = "Write"}}
    \cup (IF pc \in {"process", "copy"} THEN {cur.path} ELSE {})

\* Another process removes a file or an empty directory.
EnvRemove(p) ==
    /\ envLeft > 0
    /\ pc # "aborted"
    /\ Exists(fs, p)
    /\ Children(fs, p) = {}
    /\ fs' = [q \in DOMAIN fs \ {p} |-> fs[q]]
    /\ raced' = raced \cup {w \in PendingWrites : Canonicalize(fs, w) = Ok(p)}
    /\ envLeft' = envLeft - 1
    /\ UNCHANGED <<startupVars, pc, queue, connected, cur, hist, copyCalls, log,
                   panic, sent, evLeft>>

\* Whether main has reached its loop.
Looping == pc \in {"recv", "process", "copy"}

\* The notification subsystem sends an event.  An event sent while main is
\* still registering watches waits in the channel until the first recv(), so
\* the model lets it be sent from then on.
EnvEmit(ev) ==
    /\ evLeft > 0
    /\ connected
    /\ Looping
    /\ queue' = Append(queue, ev)
    /\ sent' = IF ev.kind = "Write" THEN Append(sent, ev.path) ELSE sent
    /\ evLeft' = evLeft - 1
    /\ UNCHANGED <<startupVars, fs, pc, connected, cur, hist, copyCalls, log,
                   panic, raced, envLeft>>

\* The notification subsystem stops: the last sender is dropped.  recv()
\* still yields the events sent before, so the model lets the sender go once
\* main waits on the empty channel.
EnvDisconnect ==
    /\ connected
    /\ pc = "recv"
    /\ queue = <<>>
    /\ connected' = FALSE
    /\ UNCHANGED <<startupVars, fs, pc, queue, cur, hist, copyCalls, log, panic,
                   raced, sent, evLeft, envLeft>>

Env ==
    \/ \E p \in Mutable : EnvModify(p)
    \/ \E p \in Mutable : EnvRemove(p)
    \/ \E ev \in Events : EnvEmit(ev)
    \/ EnvDisconnect

Program ==
    \/ ParseRule
    \/ CreateWatcher
    \/ Register
    \/ RecvWrite
    \/ RecvOther
    \/ RecvDisconnected
    \/ Process
    \/ CopyBackup

Next == Program \/ Env

Spec == Init /\ [][Next]_vars

\* main is a running thread: a step it can take is eventually taken.
FairSpec == Spec /\ WF_vars(Program)

-----------------------------------------------------------------------------
\* Properties.

Noon == DateTime(2024, 3, 1, 12, 0, 0, 123456000)

\* The calls of process_write_event that got as far as the backup file name.
Named == {i \in 1..Len(hist) : hist[i].result \in {"Ok", "CopyFailed"}}

Copied == {i \in 1..Len(hist) : hist[i].result = "Ok"}

SameFile(f) ==
    /\ pc = "recv"
    /\ hist # <<>>
    /\ f \in DOMAIN table
    /\ f \in watches
    /\ IsFile(fs, f)
    /\ IsDir(fs, table[f])
    /\ \A i \in 1..Len(hist) : hist[i].canon = f

\* What C2 promises for watched file f after Len(hist) Write events.
OneBackupEach(f) ==
    /\ copyCalls = Len(hist)
    /\ Cardinality(Children(fs, table[f])) = Len(hist)
    /\ \A i \in 1..Len(hist) :
          /\ hist[i].result = "Ok"
          /\ Parent(hist[i].dest) = table[f]
          /\ IsFile(fs, hist[i].dest)
          /\ fs[hist[i].dest].data = hist[i].data
          /\ \A j \in 1..Len(hist) : i # j => hist[i].dest # hist[j].dest

\* C2, as stated: N Write events for the same watched file with pairwise
\* distinct captured timestamps leave exactly N backup files with pairwise
\* distinct names, one copy attempt each, each with the contents its copy saw.
C2_DistinctInstants ==
    \A f \in DOMAIN table :
        (SameFile(f)
         /\ \A i, j \in 1..Len(hist) : i # j => hist[i].t # hist[j].t)
            => OneBackupEach(f)

\* C2, amended: the same, for a file whose base name is valid UTF-8, captured
\* timestamps that are pairwise distinct at the microsecond, the resolution
\* of the file name, and a backup directory that is present.
C2_DistinctMicros ==
    \A f \in DOMAIN table :
        (SameFile(f)
         /\ ToStr(FileName(f).val).ok
         /\ \A i, j \in 1..Len(hist) :
               i # j => hist[i].t.nanosecond \div 1000
                            # hist[j].t.nanosecond \div 1000)
            => OneBackupEach(f)

C2_Witness ==
    /\ SameFile(WatchedA)
    /\ Len(hist) = 2
    /\ hist[1].t # hist[2].t
    /\ hist[1].data # hist[2].data
    /\ OneBackupEach(WatchedA)

\* C3: a Write event whose path canonicalizes to a path that is no key of the
\* rule table ends in the missing-rule error, logged at error level, and
\* neither receiving it nor handling it changes the file system or calls copy.
C3_NoRuleNoWrite ==
    [][/\ (pc = "recv" /\ pc' = "process") => fs' = fs
       /\ (/\ pc = "process"
           /\ pc' # "process"
           /\ Canonicalize(fs, cur.path).ok
           /\ Canonicalize(fs, cur.path).val \notin DOMAIN table)
              => /\ fs' = fs
                 /\ copyCalls' = copyCalls
                 /\ pc' = "recv"
                 /\ panic' = "none"
                 /\ log' = <<"error">>
                 /\ Len(hist') = Len(hist) + 1
                 /\ hist'[Len(hist')].result = "NoRule"]_vars

C3_Witness ==
    /\ pc = "recv"
    /\ log = <<"error">>
    /\ hist # <<>>
    /\ hist[Len(hist)].result = "NoRule"
    /\ hist[Len(hist)].canon = WatchedB
    /\ copyCalls = 0

\* A call of process_write_event returns.
Returns == Len(hist') = Len(hist) + 1

Last(h) == h[Len(h)]

\* C4: a failed handling of a Write event, whatever the failure, does not end
\* the dispatch loop: the failure is logged at error level, main is back at
\* recv() with the channel as it was, and there it can receive the event
\* that waits in the channel.
C4_FailureKeepsLooping ==
    /\ [][(Returns /\ Last(hist').result # "Ok")
            => /\ pc' = "recv"
               /\ panic' = "none"
               /\ log' = <<"error">>
               /\ queue' = queue
               /\ connected' = connected]_vars
    /\ []((/\ pc = "recv"
           /\ hist # <<>>
           /\ Last(hist).result # "Ok"
           /\ queue # <<>>) => ENABLED (RecvWrite \/ RecvOther))

C4_Witness ==
    /\ Len(hist) = 2
    /\ hist[1].result \in {"PathResolution", "NoRule", "InvalidFileName",
                           "CopyFailed"}
    /\ hist[2].result = "Ok"
    /\ pc = "recv"

\* The premise of C5: the call that returns handled a Write event for a
\* watched file with a rule, removed after the event was sent and before
\* the copy ran.
RemovedInFlight ==
    /\ Returns
    /\ Last(hist').raced
    /\ cur.path \in DOMAIN table
    /\ cur.path \in watches

\* C5, as stated: such a call ends in the copy-failure error, creates no
\* backup file, and the loop goes on.
C5_AlwaysCopyFailed ==
    [][RemovedInFlight
         => /\ Last(hist').result = "CopyFailed"
            /\ fs' = fs
            /\ pc' = "recv"
            /\ panic' = "none"]_vars

\* C5, amended: such a call ends in an error, creates no backup file, and the
\* loop goes on; the error is the copy failure when the file is removed after
\* process_write_event canonicalized the path, and the path-resolution error
\* when it is removed before.
C5_ResolutionOrCopyFailed ==
    [][RemovedInFlight
         => /\ pc = "process" => Last(hist').result = "PathResolution"
            /\ pc = "copy" => Last(hist').result = "CopyFailed"
            /\ fs' = fs
            /\ log' = <<"error">>
            /\ pc' = "recv"
            /\ panic' = "none"]_vars

C5_Witness ==
    /\ Len(hist) = 2
    /\ hist[1].raced
    /\ hist[1].path \in watches
    /\ hist[1].result = "CopyFailed"
    /\ hist[2].result = "Ok"

\* C6: receiving an event of any kind other than Write only logs: the rule
\* table, the registered watches and the file system stay as they are, no
\* copy is made and process_write_event is not called.
C6_OtherKindsOnlyLog ==
    [][(/\ pc = "recv"
        /\ queue # <<>>
        /\ Head(queue).kind \in OtherKinds
        /\ queue' = Tail(queue))
          => /\ table' = table
             /\ watches' = watches
             /\ fs' = fs
             /\ copyCalls' = copyCalls
             /\ hist' = hist
             /\ pc' = "recv"
             /\ panic' = "none"
             /\ log' = <<IF Head(queue).kind = "Error" THEN "error"
                         ELSE "debug">>]_vars

C6_Witness ==
    /\ pc = "recv"
    /\ evLeft = 0
    /\ queue = <<>>
    /\ hist = <<>>
    /\ copyCalls = 0
    /\ log = <<"error">>
    /\ watches # {}

\* C7: a rule whose watched file exists and whose backup directory path does
\* not exist does not abort startup.
C7_MissingDirDoesNotAbort ==
    \A i \in 1..Len(config) :
        (/\ Canonicalize(fs, config[i].file_path).ok
         /\ IsFile(fs, Canonicalize(fs, config[i].file_path).val)
         /\ ~Canonicalize(fs, config[i].backup_dir_path).ok)
            => ~(pc = "aborted" /\ parseIdx = i)

\* C8: a rule with a path that cannot be canonicalized aborts the process in
\* parse_config_file, with no watcher created, no watch registered and no
\* directory created; parse_config_file never changes the file system.
C8_AbortBeforeWatching ==
    /\ [][(pc = "parse" /\ (pc' # pc \/ parseIdx' # parseIdx))
            => /\ fs' = fs
               /\ watches' = {}
               /\ ~connected'
               /\ (\/ ~Canonicalize(fs, config[parseIdx].file_path).ok
                   \/ ~Canonicalize(fs, config[parseIdx].backup_dir_path).ok)
                     => (pc' = "aborted" /\ table' = table)]_vars
    /\ [](pc \in {"parse", "watcher"}
            => /\ watches = {}
               /\ ~connected
               /\ DOMAIN fs \subseteq DOMAIN InitialFs)
    /\ []((pc = "aborted" /\ parseIdx <= Len(config))
            => /\ watches = {}
               /\ ~connected
               /\ DOMAIN fs \subseteq DOMAIN InitialFs)

C8_Witness ==
    /\ pc = "aborted"
    /\ panic = "Failed to canonicalize file path."
    /\ parseIdx = 2
    /\ table # EmptyTable
    /\ watches = {}
    /\ ~connected

\* The key the for loop of start_file_watcher visits in this step.
Visits(k) == pc = "register" /\ k \in pending /\ k \notin pending'

\* C9: a rule whose watched path is not a regular file, or whose backup path
\* exists and is not a directory, is skipped: an error is logged, no watch is
\* registered, nothing is created, the process does not abort, the other
\* rules stay to be visited, and when the loop is done every rule was
\* visited.
C9_InvalidRuleSkipped ==
    /\ [][\A k \in DOMAIN table :
            (/\ Visits(k)
             /\ \/ ~IsFile(fs, k)
                \/ (Exists(fs, table[k]) /\ ~IsDir(fs, table[k])))
               => /\ log' = <<"error">>
                  /\ watches' = watches
                  /\ fs' = fs
                  /\ pc' # "aborted"
                  /\ panic' = "none"
                  /\ pending' = pending \ {k}]_vars
    /\ [](Looping => (pending = {} /\ watches \cup skipped = DOMAIN table))

C9_Witness ==
    /\ pc = "recv"
    /\ skipped = {WatchedA}
    /\ watches = {WatchedB}
    /\ IsFile(fs, WatchedA)
    /\ IsFile(fs, table[WatchedA])

\* C10: a rule that gets a registered watch has its backup directory on disk
\* as a directory when its watch is registered.
C10_WatchedHasDir ==
    [][\A k \in DOMAIN table :
          (Visits(k) /\ k \in watches') => IsDir(fs', table[k])]_vars


\* C11: start_file_watcher aborts the process only when the watcher cannot
\* be created; no failure that concerns a single rule aborts it.
C11_OnlyWatcherInitAborts ==
    (pc = "aborted" /\ parseIdx > Len(config) /\ panic # "recv")
        => panic = "Failed to create file change watcher."

\* C12: the running dispatch loop ends if and only if recv() reports the
\* channel disconnected: every step that ends it is that recv() on the empty
\* channel with no sender left, and that recv() ends it.
C12_OnlyDisconnectEndsLoop ==
    /\ [][(Looping /\ pc' = "aborted")
            => /\ pc = "recv"
               /\ queue = <<>>
               /\ ~connected
               /\ panic' = "recv"]_vars
    /\ [][(pc = "recv" /\ queue = <<>> /\ ~connected /\ pc' # pc)
            => pc' = "aborted"]_vars
    /\ []((pc = "recv" /\ queue = <<>> /\ ~connected)
            => ENABLED RecvDisconnected)

C12_Witness ==
    /\ pc = "aborted"
    /\ panic = "recv"
    /\ Len(hist) = 2
    /\ hist[1].result = "Ok"
    /\ hist[2].result # "Ok"

\* The copy of process_write_event returns.
CopyReturns == pc = "copy" /\ pc' = "recv"

\* Every file but the destination d is as it was.
OthersUntouched(d) ==
    /\ DOMAIN fs' \ {d} = DOMAIN fs \ {d}
    /\ \A q \in DOMAIN fs \ {d} : fs'[q] = fs[q]

C14_BaseNamesKeepApart ==
    \A i, j \in Named :
        (/\ hist[i].dir = hist[j].dir
         /\ FileName(hist[i].canon) # FileName(hist[j].canon))
            => (hist[i].name # hist[j].name /\ hist[i].dest # hist[j].dest)

C14_Witness ==
    \E i, j \in Copied :
        /\ hist[i].dir = hist[j].dir
        /\ hist[i].canon = WatchedA
        /\ hist[j].canon = WatchedB
        /\ hist[i].t = hist[j].t
        /\ IsFile(fs, hist[i].dest)
        /\ IsFile(fs, hist[j].dest)


\* The paths of the Write events of a sequence of events, in order.
WritesOf(q) ==
    LET w == SelectSeq(q, LAMBDA ev : ev.kind = "Write")
    IN  [i \in 1..Len(w) |-> w[i].path]

\* The paths of the Write events handled so far, in order of handling, then
\* the one in hand.
Handled ==
    [i \in 1..Len(hist) |-> hist[i].path]
        \o (IF pc \in {"process", "copy"} THEN <<cur.path>> ELSE <<>>)

\* C15: events are handled in the order of delivery, one at a time: the
\* Write events handled so far, then the one in hand, then those waiting in
\* the channel are the Write events in the order they were delivered, and
\* while an event is in hand none is taken from the channel.
C15_HandledInDeliveryOrder ==
    /\ [](sent = Handled \o WritesOf(queue))
    /\ [][(pc = "process" \/ pc = "copy")
            => /\ Len(queue') >= Len(queue)
               /\ SubSeq(queue', 1, Len(queue)) = queue
               /\ Len(hist') <= Len(hist) + 1]_vars
    /\ [][Len(queue') < Len(queue)
            => /\ pc = "recv"
               /\ queue' = Tail(queue)]_vars

C15_Witness ==
    /\ pc = "copy"
    /\ hist = <<>>
    /\ queue # <<>>
    /\ Head(queue).kind = "Write"
    /\ Head(queue).path # cur.path
    /\ sent = <<cur.path, Head(queue).path>>

\* C16: the rule table is built by parse_config_file and never changed
\* afterwards: no step of watch registration or of the dispatch loop changes
\* it, and parsing is not entered again.
C16_TableFrozenAfterParse ==
    [][pc # "parse" => (table' = table /\ pc' # "parse")]_vars

C16_Witness ==
    /\ pc = "recv"
    /\ skipped # {}
    /\ Cardinality(DOMAIN table) = 2
    /\ Len(hist) = 2
    /\ hist[1].result = "Ok"
    /\ hist[2].result = "CopyFailed"

\* C17: a successful backup is written into the directory that the table
\* holds for the canonical form of the event's path and nowhere else.
C17_WrittenWhereTableSays ==
    /\ [][(pc = "process" /\ pc' = "copy")
            => Canonicalize(fs, cur.path) = Ok(cur'.canon)]_vars
    /\ [][(CopyReturns /\ Last(hist').result = "Ok")
            => /\ cur.canon \in DOMAIN table
               /\ Parent(Last(hist').dest) = table[cur.canon]
               /\ IsFile(fs', Last(hist').dest)
               /\ OthersUntouched(Last(hist').dest)]_vars

C17_Witness ==
    \E i \in Copied :
        /\ hist[i].path = LinkA
        /\ hist[i].canon = WatchedA
        /\ Cardinality(DOMAIN table) = 2
        /\ Parent(hist[i].dest) = table[WatchedA]
        /\ IsFile(fs, hist[i].dest)
        /\ \A k \in DOMAIN table \ {WatchedA} :
              table[k] # table[WatchedA] /\ Children(fs, table[k]) = {}

\* The rules of the configuration whose file path canonicalizes to k.
RulesFor(k) ==
    {i \in 1..Len(config) : Canonicalize(InitialFs, config[i].file_path) = Ok(k)}

\* The last of them.
LastRuleFor(k) == CHOOSE i \in RulesFor(k) : \A j \in RulesFor(k) : j <= i

\* C18: once the configuration is parsed, the table has one entry for each
\* canonical file path of the configuration, its directory is that of the
\* last rule of that path, and every backup goes to that directory.
C18_LastRuleWins ==
    parseIdx > Len(config)
        => /\ DOMAIN table = {k \in DOMAIN InitialFs : RulesFor(k) # {}}
           /\ \A k \in DOMAIN table :
                 Ok(table[k]) = Canonicalize(InitialFs,
                                   config[LastRuleFor(k)].backup_dir_path)
           /\ \A i \in Copied :
                 Ok(Parent(hist[i].dest)) = Canonicalize(InitialFs,
                     config[LastRuleFor(hist[i].canon)].backup_dir_path)

C18_Witness ==
    \E i \in Copied :
        /\ Cardinality(RulesFor(hist[i].canon)) = 2
        /\ Cardinality(DOMAIN table) = 1
        /\ Parent(hist[i].dest) = Bk2
        /\ config[1].backup_dir_path = Bk
        /\ IsDir(fs, Bk)
        /\ Children(fs, Bk) = {}

\* C19: process_write_event checks in the order canonicalize, rule lookup,
\* file name, copy and reports the first check that fails; a failure before
\* the copy writes nothing to the file system.
C19_FirstFailureReported ==
    /\ [][(pc = "process" /\ pc' # "process")
            => /\ fs' = fs
               /\ copyCalls' = copyCalls
               /\ LET c == Canonicalize(fs, cur.path)
                  IN  IF ~c.ok
                      THEN Returns /\ Last(hist').result = "PathResolution"
                      ELSE IF c.val \notin DOMAIN table
                      THEN Returns /\ Last(hist').result = "NoRule"
                      ELSE IF c.val = Root
                      THEN Returns /\ Last(hist').result = "InvalidFileName"
                      ELSE IF c.val[Len(c.val)] \in NonUtf8Names
                      THEN Returns /\ Last(hist').result = "NotUtf8"
                      ELSE pc' = "copy" /\ hist' = hist]_vars
    /\ [][CopyReturns
            => /\ Last(hist').result \in {"Ok", "CopyFailed"}
               /\ (Last(hist').result = "CopyFailed" => fs' = fs)]_vars

C19_Witness ==
    /\ Len(hist) = 2
    /\ hist[1].result = "InvalidFileName"
    /\ hist[2].result = "NotUtf8"
    /\ copyCalls = 0
    /\ Children(fs, Bk) = {}
    /\ Children(fs, Bk2) = {}

====
